---- MODULE Spec2Model ----
(***************************************************************************)
(* Model of tensorpipe/transport/shm/loop.cc: the epoll reactor (Loop) and *)
(* the FunctionEventHandler bound to it.                                   *)
(*                                                                         *)
(* Threads: the dispatch thread "loop" running Loop::loop, and external    *)
(* caller threads.  Every thread has a program counter, a stack of         *)
(* continuations (the calls it is inside) and the arguments of the call it *)
(* is executing, so that registerDescriptor, unregisterDescriptor, cancel  *)
(* and run are the same code whether an external thread, a handler         *)
(* callback or a deferred function calls them.                             *)
(***************************************************************************)
EXTENDS Integers, Sequences, FiniteSets, TLC

\* ---------------------------------------------------------------- bounds
NumFds == 2          \* user descriptors 1..NumFds
MaxFns == 3          \* deferred functions submitted in one behaviour (queue only)
MaxFnsDeferred == 2  \* deferred functions submitted beside handlers
MaxStarts == 2       \* handler registrations in one behaviour
MaxCancels == 2      \* explicit cancel() calls in one behaviour
MaxDrops == 2        \* handlers whose owner releases them in one behaviour
MaxUnregs == 1       \* direct unregisterDescriptor calls in one behaviour
MaxReady == 1        \* times the environment makes a descriptor ready
MaxEintr == 1        \* times epoll_wait is interrupted by a signal
MaxWakeups == 1      \* direct wakeup() calls in one behaviour

\* ------------------------------------------------------------- universe
Max(a, b) == IF a > b THEN a ELSE b

LoopThread == "loop"
ExtThreads == {"t1", "t2"}
Threads == ExtThreads \cup {LoopThread}
Handlers == {"h1", "h2"}
EventFd == 0
UserFds == 1..NumFds
Fns == 1..Max(MaxFns, MaxFnsDeferred)
Bits == {"IN", "OUT"}
Masks == {{"IN"}, {"OUT"}}
NoHandler == "none"
NoThread == "nobody"
NotInEpoll == {"absent"}
FnBodies == {"ok", "throw", "nested", "unreg", "cancel"}
Callbacks == {"noop", "cancel"}

VARIABLES
  \* Loop
  handlers,       \* handlers_: index -> weak reference (NoHandler = uninitialized)
  handlerCount,   \* handlerCount_
  interest,       \* the epoll interest list: fd -> mask, or NotInEpoll
  ready,          \* readiness of the user descriptors (set by the environment)
  eventFdCount,   \* the eventfd counter (written by wakeup, never read)
  functions,      \* functions_
  done,           \* done_
  tableLock,      \* owner of handlersMutex_
  queueLock,      \* owner of m_
  \* Loop::loop locals
  events, evIdx,  \* the batch epoll_wait returned and the index i
  loopH,          \* the shared_ptr h held during one invocation
  stackFunctions, fnIdx,
  \* handlers
  hcfg,           \* per handler: kind, fd_, event_, callback
  hstate,         \* per handler: started, ownerRef, cancelled_, mutex_ owner, destroyed
  \* threads
  pc, stack, arg,
  crashed,        \* std::terminate was called
  \* deferred functions and their promises
  fns,
  nextFn,
  \* environment budgets and observation
  budget,
  obs

vars == <<handlers, handlerCount, interest, ready, eventFdCount, functions, done,
          tableLock, queueLock, events, evIdx, loopH, stackFunctions, fnIdx,
          hcfg, hstate, pc, stack, arg, crashed, fns, nextFn, budget, obs>>

loopVars == <<events, evIdx, loopH, stackFunctions, fnIdx>>

\* -------------------------------------------------------------- helpers
NoArg == [h |-> NoHandler, fd |-> 0, mask |-> {}, f |-> 0]
Frame(k, h, f) == [k |-> k, h |-> h, f |-> f]

RegPcs == {"reg_table", "reg_epoll", "reg_mod"}
UnregPcs == {"unreg_epoll", "unreg_table"}
CancelPcs == {"cancel_lock", "cancel_done"}

\* The descriptor and the handler the deferred-function bodies "unreg" and
\* "cancel" act on.
FnFd == 1
FnHandler == "h1"

\* The descriptor that is not an open file in the behaviours where the
\* caller passes a bad descriptor: epoll_ctl fails on it with EBADF.
ClosedFd == 2

Perms(S) == {s \in [1..Cardinality(S) -> S] : \A i, j \in DOMAIN s : i # j => s[i] # s[j]}

\* Number of shared_ptr owners of handler h: its owner, the dispatch
\* thread's local h, and the by-value parameter of a running
\* registerDescriptor call.
StrongCount(h) ==
  (IF hstate[h].ownerRef THEN 1 ELSE 0)
  + (IF loopH = h THEN 1 ELSE 0)
  + Cardinality({t \in Threads : pc[t] \in RegPcs /\ arg[t].h = h})

is_uninitialized(weak) == weak = NoHandler

\* A lock() that hands out the handler even after it expired.
WeakLockIgnoresExpiry(weak) == weak

\* weak_ptr::lock(): the handler while it has an owner, else null.
WeakLock(weak) ==
  IF weak # NoHandler /\ StrongCount(weak) > 0 THEN weak ELSE NoHandler

\* Some caller other than the dispatch loop's own invocation is inside a
\* call on h (and so holds a reference to it).
Busy(h) ==
  \E t \in Threads :
    /\ ~(t = LoopThread /\ loopH = h)
    /\ \/ (pc[t] \in RegPcs \cup CancelPcs /\ arg[t].h = h)
       \/ \E i \in DOMAIN stack[t] : stack[t][i].h = h /\ stack[t][i].k = "cancel_done"

\* Return from the current call: continue at the caller's continuation.  A
\* return into the wrapper of a deferred function means its fn() completed.
RetWith(t, fnsNow) ==
  /\ pc' = [pc EXCEPT ![t] = IF stack[t] = <<>> THEN "idle" ELSE Head(stack[t]).k]
  /\ stack' = [stack EXCEPT ![t] = IF stack[t] = <<>> THEN <<>> ELSE Tail(stack[t])]
  /\ arg' = [arg EXCEPT ![t] = IF stack[t] = <<>> THEN NoArg
                               ELSE [NoArg EXCEPT !.h = Head(stack[t]).h, !.f = Head(stack[t]).f]]
  /\ fns' = IF stack[t] # <<>> /\ Head(stack[t]).k = "fn_ret"
            THEN [fnsNow EXCEPT ![Head(stack[t]).f].bodyDone = TRUE]
            ELSE fnsNow

Ret(t) == RetWith(t, fns)

Call(t, label, a, frame) ==
  /\ pc' = [pc EXCEPT ![t] = label]
  /\ stack' = [stack EXCEPT ![t] = <<frame>> \o stack[t]]
  /\ arg' = [arg EXCEPT ![t] = a]

Goto(t, label) ==
  /\ pc' = [pc EXCEPT ![t] = label]
  /\ UNCHANGED <<stack, arg>>

\* A drain that ends after one pass, without looking at the queue again.
AfterFnSinglePass == IF fnIdx + 1 > Len(stackFunctions) THEN "check" ELSE "run_fn"

\* After wrapper number fnIdx (line 198, fn = nullptr): the next one, or
\* back to the critical section of m_ (line 201).
AfterFn == IF fnIdx + 1 > Len(stackFunctions) THEN "drain" ELSE "run_fn"

Advance ==
  /\ fnIdx' = IF fnIdx + 1 > Len(stackFunctions) THEN 1 ELSE fnIdx + 1
  /\ stackFunctions' = IF fnIdx + 1 > Len(stackFunctions) THEN <<>> ELSE stackFunctions

\* ------------------------------------------------------------- Init
\* The handlers of a behaviour: h1 is a FunctionEventHandler on descriptor 1
\* whose callback returns or cancels the handler; h2 is a second function
\* handler or a plain EventHandler, on the same descriptor or another one.
HandlerConfigs ==
  {c \in [Handlers -> [kind : {"function", "plain"}, fd : UserFds, event : Masks,
                        cb : Callbacks]] :
     /\ c["h1"] \in [kind : {"function"}, fd : {1}, event : {{"IN"}}, cb : Callbacks]
     /\ c["h2"] \in {[kind |-> "function", fd |-> 1, event |-> {"OUT"}, cb |-> "noop"],
                     [kind |-> "plain", fd |-> 1, event |-> {"OUT"}, cb |-> "noop"],
                     [kind |-> "plain", fd |-> 2, event |-> {"IN"}, cb |-> "noop"]}}

\* The thread that constructed a handler and holds its owning reference.
Owner(h) == IF h = "h1" THEN "t1" ELSE "t2"

InitCommon ==
  /\ handlers = [i \in 0..EventFd |-> NoHandler]
  /\ handlerCount = 0
  /\ interest = [fd \in UserFds |-> NotInEpoll]
  /\ ready = [fd \in UserFds |-> {}]
  /\ eventFdCount = 0
  /\ functions = <<>>
  /\ done = FALSE
  /\ tableLock = NoThread
  /\ queueLock = NoThread
  /\ events = <<>>
  /\ evIdx = 1
  /\ loopH = NoHandler
  /\ stackFunctions = <<>>
  /\ fnIdx = 1
  /\ hstate = [h \in Handlers |->
                 [started |-> FALSE, ownerRef |-> TRUE, cancelled |-> FALSE,
                  mutex |-> NoThread, destroyed |-> FALSE]]
  /\ pc = [t \in Threads |-> IF t = LoopThread THEN "wait" ELSE "idle"]
  /\ stack = [t \in Threads |-> <<>>]
  /\ arg = [t \in Threads |-> NoArg]
  /\ crashed = FALSE
  /\ fns = [f \in Fns |->
              [body |-> "ok", by |-> NoThread, promise |-> "none", runs |-> 0,
               sets |-> 0, ranOn |-> NoThread, bodyDone |-> FALSE]]
  /\ nextFn = 1
  /\ obs = [joinCalled |-> FALSE, joinReturned |-> FALSE,
            unregCalls |-> [h \in Handlers |-> 0],
            cancelErrs |-> [h \in Handlers |-> 0],
            resolved |-> <<>>, invoked |-> <<>>, cycleFns |-> 0, cycle |-> FALSE,
            skipped |-> FALSE,
            execLog |-> <<>>, eintrSeen |-> FALSE]

\* ------------------------------------------- Loop::registerDescriptor
\* Lines 93-102: under handlersMutex_, grow the table, count the entry if it
\* was uninitialized, store the weak reference.
\* A registration that counts every call, re-registration included.
CountAfterRegisterAlways(entry) == handlerCount + 1

CountAfterRegister(entry) ==
  IF is_uninitialized(entry) THEN handlerCount + 1 ELSE handlerCount

RegTable(t) ==
  /\ ~crashed
  /\ pc[t] = "reg_table"
  /\ tableLock = NoThread
  /\ LET fd == arg[t].fd
         size == Max(fd + 1, Cardinality(DOMAIN handlers))
         resized == [i \in 0..(size - 1) |->
                       IF i \in DOMAIN handlers THEN handlers[i] ELSE NoHandler]
     IN /\ handlerCount' = CountAfterRegister(resized[fd])
        /\ handlers' = [resized EXCEPT ![fd] = arg[t].h]
  /\ Goto(t, "reg_epoll")
  /\ UNCHANGED <<interest, ready, eventFdCount, functions, done, tableLock, queueLock,
                 loopVars, hcfg, hstate, crashed, fns, nextFn, budget, obs>>

\* Line 104: epoll_ctl(EPOLL_CTL_ADD); EEXIST leads to the EPOLL_CTL_MOD of
\* line 106; any other failure (here EBADF) is thrown at line 108.
RegEpoll(t) ==
  /\ ~crashed
  /\ pc[t] = "reg_epoll"
  /\ IF arg[t].fd \in budget.closed
     THEN /\ Goto(t, "throwing")
          /\ UNCHANGED <<interest, fns>>
     ELSE IF interest[arg[t].fd] = NotInEpoll
     THEN /\ interest' = [interest EXCEPT ![arg[t].fd] = arg[t].mask]
          /\ Ret(t)
     ELSE /\ Goto(t, "reg_mod")
          /\ UNCHANGED <<interest, fns>>
  /\ UNCHANGED <<handlers, handlerCount, ready, eventFdCount, functions, done, tableLock,
                 queueLock, loopVars, hcfg, hstate, crashed, nextFn, budget, obs>>

\* Lines 106-108: epoll_ctl(EPOLL_CTL_MOD); ENOENT (the descriptor was
\* deleted since the ADD) is thrown.
RegMod(t) ==
  /\ ~crashed
  /\ pc[t] = "reg_mod"
  /\ IF interest[arg[t].fd] # NotInEpoll
     THEN /\ interest' = [interest EXCEPT ![arg[t].fd] = arg[t].mask]
          /\ Ret(t)
     ELSE /\ Goto(t, "throwing")
          /\ UNCHANGED <<interest, fns>>
  /\ UNCHANGED <<handlers, handlerCount, ready, eventFdCount, functions, done, tableLock,
                 queueLock, loopVars, hcfg, hstate, crashed, nextFn, budget, obs>>

\* ----------------------------------------- Loop::unregisterDescriptor
\* Lines 112-113: epoll_ctl(EPOLL_CTL_DEL); ENOENT is thrown.
UnregEpoll(t) ==
  /\ ~crashed
  /\ pc[t] = "unreg_epoll"
  /\ IF interest[arg[t].fd] # NotInEpoll
     THEN /\ interest' = [interest EXCEPT ![arg[t].fd] = NotInEpoll]
          /\ Goto(t, "unreg_table")
     ELSE /\ Goto(t, "throwing")
          /\ UNCHANGED interest
  /\ UNCHANGED <<handlers, handlerCount, ready, eventFdCount, functions, done, tableLock,
                 queueLock, loopVars, hcfg, hstate, crashed, fns, nextFn, budget, obs>>

\* Lines 115-121: under handlersMutex_, uncount the entry unless it is
\* uninitialized, and reset it.
CountAfterUnregister(entry) ==
  IF ~is_uninitialized(entry) THEN handlerCount - 1 ELSE handlerCount

UnregTable(t) ==
  /\ ~crashed
  /\ pc[t] = "unreg_table"
  /\ tableLock = NoThread
  /\ handlerCount' = CountAfterUnregister(handlers[arg[t].fd])
  /\ handlers' = [handlers EXCEPT ![arg[t].fd] = NoHandler]
  /\ Ret(t)
  /\ UNCHANGED <<interest, ready, eventFdCount, functions, done, tableLock, queueLock,
                 loopVars, hcfg, hstate, crashed, nextFn, budget, obs>>

\* ------------------------------------------ FunctionEventHandler::cancel
\* Lines 38-40: take mutex_; if not cancelled_, call unregisterDescriptor.
CancelLock(t) ==
  /\ ~crashed
  /\ pc[t] = "cancel_lock"
  /\ LET h == arg[t].h IN
     /\ hstate[h].mutex = NoThread
     /\ IF ~hstate[h].cancelled
        THEN /\ hstate' = [hstate EXCEPT ![h].mutex = t]
             /\ Call(t, "unreg_epoll", [NoArg EXCEPT !.h = h, !.fd = hcfg[h].fd],
                     Frame("cancel_done", h, 0))
             /\ obs' = [obs EXCEPT !.unregCalls[h] = @ + 1]
             /\ UNCHANGED fns
        ELSE /\ Ret(t)
             /\ UNCHANGED <<hstate, obs>>
  /\ UNCHANGED <<handlers, handlerCount, interest, ready, eventFdCount, functions, done,
                 tableLock, queueLock, loopVars, hcfg, crashed, nextFn, budget>>

\* Lines 41-43: unregisterDescriptor returned; set cancelled_, release mutex_.
CancelDone(t) ==
  /\ ~crashed
  /\ pc[t] = "cancel_done"
  /\ hstate' = [hstate EXCEPT ![arg[t].h].cancelled = TRUE, ![arg[t].h].mutex = NoThread]
  /\ Ret(t)
  /\ UNCHANGED <<handlers, handlerCount, interest, ready, eventFdCount, functions, done,
                 tableLock, queueLock, loopVars, hcfg, crashed, nextFn, budget, obs>>

\* ------------------------- FunctionEventHandler::~FunctionEventHandler
\* Lines 29-31: cancel() returned; the object is gone.
DtorEnd(t) ==
  /\ ~crashed
  /\ pc[t] = "dtor_end"
  /\ hstate' = [hstate EXCEPT ![arg[t].h].destroyed = TRUE]
  /\ Ret(t)
  /\ UNCHANGED <<handlers, handlerCount, interest, ready, eventFdCount, functions, done,
                 tableLock, queueLock, loopVars, hcfg, crashed, nextFn, budget, obs>>

\* ------------------------------------------------------ exceptions
\* The exception thrown on thread t meets a catch block or a noexcept
\* boundary on its way up: the wrapper of run (lines 136-138), a destructor
\* (lines 29-31), or the caller of an external thread.  On the dispatch
\* thread nothing else catches: handleEvents is called from Loop::loop
\* (line 172), the thread function.
Caught(t) ==
  \/ t # LoopThread
  \/ \E i \in DOMAIN stack[t] : stack[t][i].k \in {"fn_ret", "dtor_end"}

\* A std::system_error thrown by TP_THROW_SYSTEM_IF (lines 108, 113):
\*  - with no handler on the dispatch thread (thrown in a callback's call):
\*    std::terminate at the throw, the stack is not unwound and a mutex_
\*    taken by cancel() stays locked;
\* otherwise it unwinds one frame:
\*  - out of cancel(): the unique_lock releases mutex_, cancelled_ stays;
\*  - out of a destructor (noexcept): std::terminate;
\*  - out of fn() in the wrapper of run (lines 136-138): caught, the promise
\*    gets the exception and the drain goes on;
\*  - out of the outermost call of an external thread: the caller gets it.
Unwind(t) ==
  /\ ~crashed
  /\ pc[t] = "throwing"
  /\ IF ~Caught(t)
     THEN /\ crashed' = TRUE
          /\ UNCHANGED <<pc, stack, arg, hstate, fns, fnIdx, stackFunctions, obs>>
     ELSE IF stack[t] = <<>>
     THEN /\ pc' = [pc EXCEPT ![t] = "idle"]
          /\ arg' = [arg EXCEPT ![t] = NoArg]
          /\ UNCHANGED <<stack, hstate, crashed, fns, fnIdx, stackFunctions, obs>>
     ELSE LET top == Head(stack[t]) IN
          IF top.k = "cancel_done"
          THEN /\ hstate' = [hstate EXCEPT ![top.h].mutex = NoThread]
               /\ stack' = [stack EXCEPT ![t] = Tail(stack[t])]
               /\ obs' = [obs EXCEPT !.cancelErrs[top.h] = @ + 1]
               /\ UNCHANGED <<pc, arg, crashed, fns, fnIdx, stackFunctions>>
          ELSE IF top.k = "fn_ret"
          THEN /\ fns' = [fns EXCEPT ![top.f].promise = "exception",
                                     ![top.f].sets = @ + 1]
               /\ Advance
               /\ pc' = [pc EXCEPT ![t] = AfterFn]
               /\ stack' = [stack EXCEPT ![t] = Tail(stack[t])]
               /\ arg' = [arg EXCEPT ![t] = NoArg]
               /\ UNCHANGED <<hstate, crashed, obs>>
          ELSE /\ crashed' = TRUE
               /\ UNCHANGED <<pc, stack, arg, hstate, fns, fnIdx, stackFunctions, obs>>
  /\ UNCHANGED <<handlers, handlerCount, interest, ready, eventFdCount, functions, done,
                 tableLock, queueLock, events, evIdx, loopH, hcfg, nextFn, budget>>

\* ------------------------------------------------------------ Loop::run
\* Lines 124-142, executed under m_: wrap fn with a fresh promise, append the
\* wrapper to functions_, wakeup(), return the future.
Submitted(f, t, body) ==
  [fns EXCEPT ![f] = [body |-> body, by |-> t, promise |-> "pending", runs |-> 0,
                      sets |-> 0, ranOn |-> NoThread, bodyDone |-> FALSE]]

\* A run that puts the new function at the front of the queue.
RunEnqueueFront(t) ==
  /\ queueLock = NoThread
  /\ nextFn <= budget.fns
  /\ functions' = <<nextFn>> \o functions
  /\ eventFdCount' = eventFdCount + 1
  /\ nextFn' = nextFn + 1

RunEnqueue(t) ==
  /\ queueLock = NoThread
  /\ nextFn <= budget.fns
  /\ functions' = Append(functions, nextFn)
  /\ eventFdCount' = eventFdCount + 1
  /\ nextFn' = nextFn + 1

\* The submitted functions whose body calls run and has not done so yet.
PendingNested ==
  {f \in 1..(nextFn - 1) :
     /\ fns[f].body = "nested"
     /\ fns[f].runs = 0 \/ (pc[LoopThread] = "run_enqueue" /\ arg[LoopThread].f = f)}

\* A behaviour submits budget.fns functions in all: an external thread
\* submits one only if the submissions that functions already in the queue
\* will make, and the one its own function will make, still fit.
ExtRun(t, body) ==
  /\ ~crashed
  /\ pc[t] = "idle"
  /\ body \in budget.bodies
  /\ nextFn + Cardinality(PendingNested) + (IF body = "nested" THEN 1 ELSE 0) <= budget.fns
  /\ RunEnqueue(t)
  /\ fns' = Submitted(nextFn, t, body)
  /\ UNCHANGED <<handlers, handlerCount, interest, ready, done, tableLock, queueLock,
                 loopVars, hcfg, hstate, pc, stack, arg, crashed, budget, obs>>

\* ---------------------------------------------------------- Loop::wakeup
\* Line 146: write 1 to the eventfd.
ExtWakeup(t) ==
  /\ ~crashed
  /\ pc[t] = "idle"
  /\ budget.wakeup > 0
  /\ budget' = [budget EXCEPT !.wakeup = @ - 1]
  /\ eventFdCount' = eventFdCount + 1
  /\ UNCHANGED <<handlers, handlerCount, interest, ready, functions, done, tableLock,
                 queueLock, loopVars, hcfg, hstate, pc, stack, arg, crashed, fns, nextFn,
                 obs>>

\* ------------------------------------------------------------ Loop::join
\* Line 214.
JoinBegin(t) ==
  /\ ~crashed
  /\ pc[t] = "idle"
  /\ budget.join > 0
  /\ budget' = [budget EXCEPT !.join = @ - 1]
  /\ done' = TRUE
  /\ obs' = [obs EXCEPT !.joinCalled = TRUE]
  /\ Goto(t, "join_wake")
  /\ UNCHANGED <<handlers, handlerCount, interest, ready, eventFdCount, functions,
                 tableLock, queueLock, loopVars, hcfg, hstate, crashed, fns, nextFn>>

\* Line 215.
JoinWake(t) ==
  /\ ~crashed
  /\ pc[t] = "join_wake"
  /\ eventFdCount' = eventFdCount + 1
  /\ Goto(t, "join_wait")
  /\ UNCHANGED <<handlers, handlerCount, interest, ready, functions, done, tableLock,
                 queueLock, loopVars, hcfg, hstate, crashed, fns, nextFn, budget, obs>>

\* Line 216: std::thread::join returns once Loop::loop has returned.
JoinReturn(t) ==
  /\ ~crashed
  /\ pc[t] = "join_wait"
  /\ pc[LoopThread] = "exited"
  /\ obs' = [obs EXCEPT !.joinReturned = TRUE]
  /\ Goto(t, "idle")
  /\ UNCHANGED <<handlers, handlerCount, interest, ready, eventFdCount, functions, done,
                 tableLock, queueLock, loopVars, hcfg, hstate, crashed, fns, nextFn,
                 budget>>

\* ----------------------------------------------- calls of external threads
\* FunctionEventHandler::start (lines 33-35), or a direct registerDescriptor
\* for a plain EventHandler: one registration per handler.
ExtStart(t, h) ==
  /\ ~crashed
  /\ pc[t] = "idle"
  /\ t = Owner(h)
  /\ hstate[h].ownerRef
  /\ ~hstate[h].started
  /\ budget.start > 0
  /\ budget' = [budget EXCEPT !.start = @ - 1]
  /\ hstate' = [hstate EXCEPT ![h].started = TRUE]
  /\ pc' = [pc EXCEPT ![t] = "reg_table"]
  /\ arg' = [arg EXCEPT ![t] = [NoArg EXCEPT !.h = h, !.fd = hcfg[h].fd,
                                             !.mask = hcfg[h].event]]
  /\ UNCHANGED <<handlers, handlerCount, interest, ready, eventFdCount, functions, done,
                 tableLock, queueLock, loopVars, hcfg, stack, crashed, fns, nextFn, obs>>

\* A direct Loop::unregisterDescriptor(fd).
ExtUnregister(t, fd) ==
  /\ ~crashed
  /\ pc[t] = "idle"
  /\ budget.unreg > 0
  /\ budget' = [budget EXCEPT !.unreg = @ - 1]
  /\ pc' = [pc EXCEPT ![t] = "unreg_epoll"]
  /\ arg' = [arg EXCEPT ![t] = [NoArg EXCEPT !.fd = fd]]
  /\ UNCHANGED <<handlers, handlerCount, interest, ready, eventFdCount, functions, done,
                 tableLock, queueLock, loopVars, hcfg, hstate, stack, crashed, fns,
                 nextFn, obs>>

\* An explicit FunctionEventHandler::cancel() by a thread holding a reference.
ExtCancel(t, h) ==
  /\ ~crashed
  /\ pc[t] = "idle"
  /\ hcfg[h].kind = "function"
  /\ hstate[h].ownerRef
  /\ budget.cancel > 0
  /\ budget' = [budget EXCEPT !.cancel = @ - 1]
  /\ pc' = [pc EXCEPT ![t] = "cancel_lock"]
  /\ arg' = [arg EXCEPT ![t] = [NoArg EXCEPT !.h = h]]
  /\ UNCHANGED <<handlers, handlerCount, interest, ready, eventFdCount, functions, done,
                 tableLock, queueLock, loopVars, hcfg, hstate, stack, crashed, fns,
                 nextFn, obs>>

\* The owner releases its shared_ptr.  If that was the last one the handler
\* is destroyed on this thread: ~FunctionEventHandler calls cancel() (line
\* 30); a plain EventHandler has nothing to do with the loop in its
\* destructor.
ExtDrop(t, h) ==
  /\ ~crashed
  /\ pc[t] = "idle"
  /\ t = Owner(h)
  /\ hstate[h].ownerRef
  /\ ~Busy(h)
  /\ budget.drop > 0
  /\ budget' = [budget EXCEPT !.drop = @ - 1]
  /\ IF loopH = h
     THEN /\ hstate' = [hstate EXCEPT ![h].ownerRef = FALSE]
          /\ UNCHANGED <<pc, stack, arg>>
     ELSE IF hcfg[h].kind = "function"
     THEN /\ hstate' = [hstate EXCEPT ![h].ownerRef = FALSE]
          /\ Call(t, "cancel_lock", [NoArg EXCEPT !.h = h], Frame("dtor_end", h, 0))
     ELSE /\ hstate' = [hstate EXCEPT ![h].ownerRef = FALSE, ![h].destroyed = TRUE]
          /\ UNCHANGED <<pc, stack, arg>>
  /\ UNCHANGED <<handlers, handlerCount, interest, ready, eventFdCount, functions, done,
                 tableLock, queueLock, loopVars, hcfg, crashed, fns, nextFn, obs>>

\* The environment makes a user descriptor ready for reading or writing.
EnvReady(fd, bit) ==
  /\ ~crashed
  /\ budget.ready > 0
  /\ bit \notin ready[fd]
  /\ budget' = [budget EXCEPT !.ready = @ - 1]
  /\ ready' = [ready EXCEPT ![fd] = @ \cup {bit}]
  /\ UNCHANGED <<handlers, handlerCount, interest, eventFdCount, functions, done,
                 tableLock, queueLock, loopVars, hcfg, hstate, pc, stack, arg, crashed,
                 fns, nextFn, obs>>

\* ------------------------------------------------------------ Loop::loop
\* An epoll_wait that reports user descriptors only, never the eventfd.
ReadyEventsUsersOnly ==
  {[fd |-> fd, ev |-> ready[fd] \cap interest[fd]] :
     fd \in {d \in UserFds : interest[d] # NotInEpoll /\ ready[d] \cap interest[d] # {}}}

\* What epoll_wait can report: the eventfd while its counter is positive
\* (level-triggered, nothing reads it), and every user descriptor in the
\* interest list with a ready bit of its mask.
ReadyEvents ==
  {[fd |-> EventFd, ev |-> {"IN"}] : x \in IF eventFdCount > 0 THEN {0} ELSE {}}
  \cup {[fd |-> fd, ev |-> ready[fd] \cap interest[fd]] :
          fd \in {d \in UserFds : interest[d] # NotInEpoll /\ ready[d] \cap interest[d] # {}}}

\* Line 152: epoll_wait returns a batch, in an order the kernel chooses.
LoopWait ==
  /\ ~crashed
  /\ pc[LoopThread] = "wait"
  /\ ReadyEvents # {}
  /\ \E batch \in Perms(ReadyEvents) :
       events' = [i \in 1..Cardinality(ReadyEvents) |-> batch[i]]
  /\ evIdx' = 1
  /\ obs' = [obs EXCEPT !.resolved = <<>>, !.invoked = <<>>, !.cycleFns = 0,
                        !.cycle = TRUE, !.skipped = FALSE]
  /\ Goto(LoopThread, "dispatch")
  /\ UNCHANGED <<handlers, handlerCount, interest, ready, eventFdCount, functions, done,
                 tableLock, queueLock, loopH, stackFunctions, fnIdx, hcfg, hstate,
                 crashed, fns, nextFn, budget>>

\* An interrupted wait that goes on into the cycle with the old batch.
AfterEintrFallsThrough == "dispatch"

\* Line 155: continue, back to epoll_wait.
AfterEintr == "wait"

\* Lines 153-156: epoll_wait returned -1 with EINTR: continue.
LoopEintr ==
  /\ ~crashed
  /\ pc[LoopThread] = "wait"
  /\ budget.eintr > 0
  /\ budget' = [budget EXCEPT !.eintr = @ - 1]
  /\ obs' = [obs EXCEPT !.eintrSeen = TRUE]
  /\ Goto(LoopThread, AfterEintr)
  /\ UNCHANGED <<handlers, handlerCount, interest, ready, eventFdCount, functions, done,
                 tableLock, queueLock, loopVars, hcfg, hstate, crashed, fns, nextFn>>

\* The first index from i on whose table entry locks to a handler, 0 if none.
NextLive(i) ==
  LET live == {j \in i..Len(events) : WeakLock(handlers[events[j].fd]) # NoHandler}
  IN IF live = {} THEN 0 ELSE CHOOSE j \in live : \A k \in live : j <= k

\* An event from i on, before the next live one, whose table entry holds a
\* reference that no longer locks (an expired handler).
SkipsExpired(i) ==
  \E j \in i..Len(events) :
    /\ NextLive(i) = 0 \/ j < NextLive(i)
    /\ ~is_uninitialized(handlers[events[j].fd])

\* A dispatch that keeps handlersMutex_ across the invocation.
TableLockHeldAcrossInvocation == LoopThread

\* handlersMutex_ after the dispatch thread's critical section: released
\* (line 168 before an invocation, line 179 at the end of the block).
TableLockAfterDispatch == NoThread

\* Lines 162-168 and 176-179, one critical section of handlersMutex_: with
\* the mutex held (taken at line 162 or again at line 176) the for loop
\* skips the events whose handlers_[fd].lock() is null; at the first live
\* handler it unlocks for the invocation, at the end of the batch the block
\* ends.
LoopDispatch ==
  /\ ~crashed
  /\ pc[LoopThread] = "dispatch"
  /\ tableLock = NoThread
  /\ tableLock' = TableLockAfterDispatch
  /\ IF NextLive(evIdx) = 0
     THEN /\ events' = <<>>
          /\ evIdx' = 1
          /\ Goto(LoopThread, "drain")
          /\ obs' = [obs EXCEPT !.skipped = @ \/ SkipsExpired(evIdx)]
          /\ UNCHANGED loopH
     ELSE /\ evIdx' = NextLive(evIdx)
          /\ loopH' = WeakLock(handlers[events[NextLive(evIdx)].fd])
          /\ obs' = [obs EXCEPT !.resolved = Append(@, NextLive(evIdx)),
                                !.skipped = @ \/ SkipsExpired(evIdx)]
          /\ Goto(LoopThread, "handle")
          /\ UNCHANGED events
  /\ UNCHANGED <<handlers, handlerCount, interest, ready, eventFdCount, functions, done,
                 queueLock, stackFunctions, fnIdx, hcfg, hstate, crashed, fns,
                 nextFn, budget>>

\* Line 172 and handleEvents (lines 45-49): the callback runs if the reported
\* bits meet event_.  The callback of a function handler either returns or
\* cancels its own handler; it may consume the readiness it was told about.
LoopHandle ==
  /\ ~crashed
  /\ pc[LoopThread] = "handle"
  /\ LET h == loopH
         e == events[evIdx]
         match == e.ev \cap hcfg[h].event # {}
     IN /\ obs' = [obs EXCEPT !.invoked = Append(@, evIdx)]
        /\ \E consume \in BOOLEAN :
             ready' = IF match /\ consume
                      THEN [ready EXCEPT ![e.fd] = @ \ e.ev] ELSE ready
        /\ IF match /\ hcfg[h].kind = "function" /\ hcfg[h].cb = "cancel"
           THEN Call(LoopThread, "cancel_lock", [NoArg EXCEPT !.h = h],
                     Frame("reset_h", h, 0))
           ELSE Goto(LoopThread, "reset_h")
  /\ UNCHANGED <<handlers, handlerCount, interest, eventFdCount, functions, done,
                 tableLock, queueLock, loopVars, hcfg, hstate, crashed, fns, nextFn,
                 budget>>

\* Line 175: h.reset(), then the for loop's i++ (the mutex is taken again
\* by the next LoopDispatch).  If the owner is gone the reset destroys the
\* handler, on the dispatch thread and before the mutex is taken again.
LoopResetH ==
  /\ ~crashed
  /\ pc[LoopThread] = "reset_h"
  /\ loopH' = NoHandler
  /\ evIdx' = evIdx + 1
  /\ IF StrongCount(loopH) > 1
     THEN /\ pc' = [pc EXCEPT ![LoopThread] = "dispatch"]
          /\ arg' = [arg EXCEPT ![LoopThread] = NoArg]
          /\ UNCHANGED <<hstate, stack>>
     ELSE IF hcfg[loopH].kind = "function"
     THEN /\ pc' = [pc EXCEPT ![LoopThread] = "cancel_lock"]
          /\ stack' = [stack EXCEPT ![LoopThread] =
                         <<Frame("dtor_end", loopH, 0), Frame("dispatch", NoHandler, 0)>>]
          /\ arg' = [arg EXCEPT ![LoopThread] = [NoArg EXCEPT !.h = loopH]]
          /\ UNCHANGED hstate
     ELSE /\ hstate' = [hstate EXCEPT ![loopH].destroyed = TRUE]
          /\ pc' = [pc EXCEPT ![LoopThread] = "dispatch"]
          /\ arg' = [arg EXCEPT ![LoopThread] = NoArg]
          /\ UNCHANGED stack
  /\ UNCHANGED <<handlers, handlerCount, interest, ready, eventFdCount, functions, done,
                 tableLock, queueLock, events, stackFunctions, fnIdx, hcfg,
                 crashed, fns, nextFn, budget, obs>>

\* m_ after the dispatch thread's critical section: released (line 190
\* before the functions run, line 203 at the end of the block).
QueueLockAfterDrain == NoThread

\* A swap that keeps only the first pending function.
SwappedFirstOnly == <<Head(functions)>>

\* Line 189: std::swap hands the whole queue to stackFunctions.
Swapped == functions

\* Lines 186-190 and 201-203, one critical section of m_: with the mutex
\* held (taken at line 186 or again at line 201), while (!functions_.empty())
\* swaps the queue into stackFunctions and unlocks; an empty queue ends the
\* block.
LoopDrain ==
  /\ ~crashed
  /\ pc[LoopThread] = "drain"
  /\ queueLock = NoThread
  /\ queueLock' = QueueLockAfterDrain
  /\ IF functions = <<>>
     THEN /\ Goto(LoopThread, "check")
          /\ UNCHANGED <<functions, stackFunctions, fnIdx>>
     ELSE /\ stackFunctions' = Swapped
          /\ functions' = <<>>
          /\ fnIdx' = 1
          /\ Goto(LoopThread, "run_fn")
  /\ UNCHANGED <<handlers, handlerCount, interest, ready, eventFdCount, done, tableLock,
                 events, evIdx, loopH, hcfg, hstate, crashed, fns, nextFn, budget, obs>>

\* A wrapper whose catch block swallows the failure.
SettledSwallows(f, fnsNow, body) ==
  IF body = "throw"
  THEN [fnsNow EXCEPT ![f].runs = @ + 1, ![f].ranOn = LoopThread]
  ELSE [fnsNow EXCEPT ![f].runs = @ + 1, ![f].ranOn = LoopThread, ![f].bodyDone = TRUE,
                      ![f].promise = "value", ![f].sets = @ + 1]

\* The wrapper's try block (lines 133-138) for a body that makes no call
\* into the loop: fn() returns and promise->set_value() follows, or fn()
\* throws and the catch stores the exception.
Settled(f, fnsNow, body) ==
  IF body = "throw"
  THEN [fnsNow EXCEPT ![f].runs = @ + 1, ![f].ranOn = LoopThread,
                      ![f].promise = "exception", ![f].sets = @ + 1]
  ELSE [fnsNow EXCEPT ![f].runs = @ + 1, ![f].ranOn = LoopThread, ![f].bodyDone = TRUE,
                      ![f].promise = "value", ![f].sets = @ + 1]

\* A wrapper that resolves the promise before it calls fn().
EnteredResolved(f) ==
  [fns EXCEPT ![f].runs = @ + 1, ![f].ranOn = LoopThread, ![f].promise = "value"]

\* The wrapper is entered on the dispatch thread and calls fn() (line 134).
Entered(f) == [fns EXCEPT ![f].runs = @ + 1, ![f].ranOn = LoopThread]

\* Lines 193-198: the next wrapper of stackFunctions is called (lines
\* 132-134).  The user's fn returns, throws, submits another function with
\* run, calls unregisterDescriptor, or cancels a handler; for the last three
\* the wrapper goes on in LoopFnRet or Unwind when the call is over.
LoopRunFn ==
  /\ ~crashed
  /\ pc[LoopThread] = "run_fn"
  /\ LET f == stackFunctions[fnIdx]
         body == fns[f].body
     IN /\ obs' = [obs EXCEPT !.execLog = Append(@, f), !.cycleFns = @ + 1]
        /\ IF body = "unreg"
           THEN /\ Call(LoopThread, "unreg_epoll", [NoArg EXCEPT !.fd = FnFd],
                        Frame("fn_ret", NoHandler, f))
                /\ fns' = Entered(f)
                /\ UNCHANGED <<functions, eventFdCount, nextFn, stackFunctions, fnIdx>>
           ELSE IF body = "cancel" /\ hcfg[FnHandler].kind = "function"
                   /\ hstate[FnHandler].ownerRef
           THEN /\ Call(LoopThread, "cancel_lock", [NoArg EXCEPT !.h = FnHandler],
                        Frame("fn_ret", NoHandler, f))
                /\ fns' = Entered(f)
                /\ UNCHANGED <<functions, eventFdCount, nextFn, stackFunctions, fnIdx>>
           ELSE IF body = "nested"
           THEN /\ Call(LoopThread, "run_enqueue", [NoArg EXCEPT !.f = f],
                        Frame("fn_ret", NoHandler, f))
                /\ fns' = Entered(f)
                /\ UNCHANGED <<functions, eventFdCount, nextFn, stackFunctions, fnIdx>>
           ELSE /\ fns' = Settled(f, fns, body)
                /\ Advance
                /\ Goto(LoopThread, AfterFn)
                /\ UNCHANGED <<functions, eventFdCount, nextFn>>
  /\ UNCHANGED <<handlers, handlerCount, interest, ready, done, tableLock, queueLock,
                 events, evIdx, loopH, hcfg, hstate, crashed, budget>>

\* Loop::run (lines 124-142) called by a deferred function on the dispatch
\* thread: under m_ the child's wrapper is appended and the eventfd written,
\* then run returns into the calling fn, whose promise is still unset.
LoopRun ==
  /\ ~crashed
  /\ pc[LoopThread] = "run_enqueue"
  /\ RunEnqueue(LoopThread)
  /\ \E b \in {"ok", "throw"} :
       RetWith(LoopThread, Submitted(nextFn, LoopThread, b))
  /\ UNCHANGED <<handlers, handlerCount, interest, ready, done, tableLock, queueLock,
                 loopVars, hcfg, hstate, crashed, budget, obs>>

\* Lines 135 and 198: fn() returned from its call into the loop:
\* promise->set_value(), then the loop resets the wrapper and moves on.
LoopFnRet ==
  /\ ~crashed
  /\ pc[LoopThread] = "fn_ret"
  /\ fns' = [fns EXCEPT ![arg[LoopThread].f].promise = "value",
                        ![arg[LoopThread].f].sets = @ + 1]
  /\ Advance
  /\ pc' = [pc EXCEPT ![LoopThread] = AfterFn]
  /\ arg' = [arg EXCEPT ![LoopThread] = NoArg]
  /\ UNCHANGED <<handlers, handlerCount, interest, ready, eventFdCount, functions, done,
                 tableLock, queueLock, events, evIdx, loopH, hcfg, hstate,
                 stack, crashed, nextFn, budget, obs>>

\* An exit test that looks at done_ alone.
ExitConditionDoneOnly == done

\* Line 207.
ExitCondition == done /\ handlerCount = 0

\* Lines 207-209: return if done_ and no handler is left, else wait again.
LoopCheck ==
  /\ ~crashed
  /\ pc[LoopThread] = "check"
  /\ IF ExitCondition
     THEN Goto(LoopThread, "exited")
     ELSE Goto(LoopThread, "wait")
  /\ obs' = [obs EXCEPT !.resolved = <<>>, !.invoked = <<>>, !.cycleFns = 0,
                        !.cycle = FALSE, !.skipped = FALSE]
  /\ UNCHANGED <<handlers, handlerCount, interest, ready, eventFdCount, functions, done,
                 tableLock, queueLock, loopVars, hcfg, hstate, crashed, fns, nextFn,
                 budget>>

\* ------------------------------------------------------- specifications
\* What the environment does in one behaviour: how many calls of each kind the
\* external threads make, and which bodies the deferred functions have.
NoBudget == [fns |-> 0, bodies |-> {}, start |-> 0, cancel |-> 0, unreg |-> 0, drop |-> 0,
             join |-> 0, ready |-> 0, eintr |-> 0, wakeup |-> 0, closed |-> {}]

\* Handlers are started, cancelled and released while descriptors become ready.
Lifecycle ==
  [NoBudget EXCEPT !.start = MaxStarts, !.cancel = MaxCancels, !.drop = MaxDrops,
                   !.ready = MaxReady]

\* The loop is joined while handlers are registered and torn down.
Shutdown ==
  [NoBudget EXCEPT !.start = 1, !.cancel = 1, !.unreg = MaxUnregs, !.drop = 1,
                   !.join = 1, !.ready = MaxReady]

\* Deferred functions run between dispatches and call into the loop.
Deferred ==
  [NoBudget EXCEPT !.start = 1, !.fns = MaxFnsDeferred, !.ready = MaxReady,
                   !.bodies = {"ok", "unreg", "cancel"}]

\* A handler is registered on a descriptor the multiplexer rejects, and the
\* loop is joined.
Rejected ==
  [NoBudget EXCEPT !.start = MaxStarts, !.cancel = 1, !.join = 1, !.closed = {ClosedFd}]

Init ==
  /\ InitCommon
  /\ hcfg \in HandlerConfigs
  /\ budget \in {Lifecycle, Shutdown, Deferred, Rejected}

Next ==
  \/ \E t \in Threads : RegTable(t)
  \/ \E t \in Threads : RegEpoll(t)
  \/ \E t \in Threads : RegMod(t)
  \/ \E t \in Threads : UnregEpoll(t)
  \/ \E t \in Threads : UnregTable(t)
  \/ \E t \in Threads : CancelLock(t)
  \/ \E t \in Threads : CancelDone(t)
  \/ \E t \in Threads : DtorEnd(t)
  \/ \E t \in Threads : Unwind(t)
  \/ \E t \in ExtThreads, b \in FnBodies : ExtRun(t, b)
  \/ \E t \in ExtThreads : JoinBegin(t)
  \/ \E t \in ExtThreads : JoinWake(t)
  \/ \E t \in ExtThreads : JoinReturn(t)
  \/ \E t \in ExtThreads, h \in Handlers : ExtStart(t, h)
  \/ \E t \in ExtThreads, fd \in UserFds : ExtUnregister(t, fd)
  \/ \E t \in ExtThreads, h \in Handlers : ExtCancel(t, h)
  \/ \E t \in ExtThreads, h \in Handlers : ExtDrop(t, h)
  \/ \E fd \in UserFds, bit \in Bits : EnvReady(fd, bit)
  \/ LoopWait
  \/ LoopDispatch
  \/ LoopHandle
  \/ LoopResetH
  \/ LoopDrain
  \/ LoopRunFn
  \/ LoopFnRet
  \/ LoopCheck

Spec == Init /\ [][Next]_vars

\* The steps a thread takes inside registerDescriptor, unregisterDescriptor,
\* cancel, a destructor or an unwinding exception.
CallPcs == RegPcs \cup UnregPcs \cup CancelPcs \cup {"dtor_end", "throwing"}

CallStep(t) ==
  \/ RegTable(t)
  \/ RegEpoll(t)
  \/ RegMod(t)
  \/ UnregEpoll(t)
  \/ UnregTable(t)
  \/ CancelLock(t)
  \/ CancelDone(t)
  \/ DtorEnd(t)
  \/ Unwind(t)

LoopStep ==
  \/ LoopWait
  \/ LoopDispatch
  \/ LoopHandle
  \/ LoopResetH
  \/ LoopDrain
  \/ LoopRunFn
  \/ LoopFnRet
  \/ LoopCheck

\* Every thread keeps running: a thread inside a call takes its next step
\* once it stays possible (a mutex it waits for stays free), the dispatch
\* thread goes on whenever epoll_wait can return, and join() goes on with
\* its wakeup and returns once the dispatch thread has exited.  When the
\* environment makes its calls is left open.
\* Two handlers are started and cancelled from several threads and from
\* callbacks while their descriptors become ready.
Contention ==
  [NoBudget EXCEPT !.start = MaxStarts, !.cancel = MaxCancels, !.ready = MaxReady]

InitFair ==
  /\ InitCommon
  /\ hcfg \in {c \in HandlerConfigs : c["h2"].kind = "function" \/ c["h2"].fd # 1}
  /\ budget \in {Shutdown, Deferred, Contention}

SpecFair ==
  /\ InitFair
  /\ [][Next]_vars
  /\ \A t \in Threads : WF_vars(CallStep(t))
  /\ WF_vars(LoopStep)
  /\ \A t \in ExtThreads : WF_vars(JoinWake(t) \/ JoinReturn(t))

\* The deferred-function queue alone: no handler is ever registered.
QueueOnly ==
  [NoBudget EXCEPT !.fns = MaxFns, !.join = 1, !.wakeup = MaxWakeups, !.eintr = MaxEintr,
                   !.bodies = {"ok", "throw", "nested"}]

InitQueue ==
  /\ InitCommon
  /\ hcfg = [h \in Handlers |->
               [kind |-> "function", fd |-> 1, event |-> {"IN"}, cb |-> "noop"]]
  /\ budget = QueueOnly

NextQueue ==
  \/ \E t \in ExtThreads, b \in FnBodies : ExtRun(t, b)
  \/ \E t \in ExtThreads : ExtWakeup(t)
  \/ \E t \in ExtThreads : JoinBegin(t)
  \/ \E t \in ExtThreads : JoinWake(t)
  \/ \E t \in ExtThreads : JoinReturn(t)
  \/ LoopWait
  \/ LoopEintr
  \/ LoopDispatch
  \/ LoopDrain
  \/ LoopRunFn
  \/ LoopRun
  \/ LoopFnRet
  \/ LoopCheck

SpecQueue == InitQueue /\ [][NextQueue]_vars

\* The queue with no shutdown requested, and a dispatch thread that keeps
\* running: each of its steps is taken once it stays enabled (epoll_wait is
\* level-triggered and returns while a descriptor is ready; EINTR may or may
\* not happen).
QueueNoJoin == [QueueOnly EXCEPT !.join = 0]

InitQueueFair ==
  /\ InitCommon
  /\ hcfg = [h \in Handlers |->
               [kind |-> "function", fd |-> 1, event |-> {"IN"}, cb |-> "noop"]]
  /\ budget = QueueNoJoin

NextQueueFair ==
  \/ \E t \in ExtThreads, b \in FnBodies : ExtRun(t, b)
  \/ \E t \in ExtThreads : ExtWakeup(t)
  \/ LoopWait
  \/ LoopEintr
  \/ LoopDispatch
  \/ LoopDrain
  \/ LoopRunFn
  \/ LoopRun
  \/ LoopFnRet
  \/ LoopCheck

SpecQueueFair ==
  /\ InitQueueFair
  /\ [][NextQueueFair]_vars
  /\ WF_vars(LoopWait)
  /\ WF_vars(LoopDispatch)
  /\ WF_vars(LoopDrain)
  /\ WF_vars(LoopRunFn)
  /\ WF_vars(LoopRun)
  /\ WF_vars(LoopFnRet)
  /\ WF_vars(LoopCheck)

\* ------------------------------------------- the dispatch thread's mutexes
\* The same loop with every lock and unlock of the dispatch thread a step of
\* its own, so that the states in which it holds handlersMutex_ or m_ are
\* states of the model and the other threads' critical sections wait for
\* them.

\* Lines 162 and 176: std::unique_lock lock(handlersMutex_) on entry to the
\* block, lock.lock() after an invocation.
LoopLockTable ==
  /\ ~crashed
  /\ pc[LoopThread] = "dispatch"
  /\ tableLock = NoThread
  /\ tableLock' = LoopThread
  /\ Goto(LoopThread, "resolve")
  /\ UNCHANGED <<handlers, handlerCount, interest, ready, eventFdCount, functions, done,
                 queueLock, loopVars, hcfg, hstate, crashed, fns, nextFn, budget, obs>>

\* Lines 163-167 and 179, with handlersMutex_ held: the for loop's test and
\* handlers_[fd].lock() for one event.  A live handler is kept in h, a null
\* one is passed over, the end of the batch ends the block and with it the
\* unique_lock.
LoopResolve ==
  /\ ~crashed
  /\ pc[LoopThread] = "resolve"
  /\ IF evIdx > Len(events)
     THEN /\ events' = <<>>
          /\ evIdx' = 1
          /\ tableLock' = NoThread
          /\ Goto(LoopThread, "drain")
          /\ UNCHANGED <<loopH, obs>>
     ELSE IF WeakLock(handlers[events[evIdx].fd]) # NoHandler
     THEN /\ loopH' = WeakLock(handlers[events[evIdx].fd])
          /\ obs' = [obs EXCEPT !.resolved = Append(@, evIdx)]
          /\ Goto(LoopThread, "unlock_table")
          /\ UNCHANGED <<events, evIdx, tableLock>>
     ELSE /\ evIdx' = evIdx + 1
          /\ obs' = [obs EXCEPT !.skipped =
                       @ \/ ~is_uninitialized(handlers[events[evIdx].fd])]
          /\ UNCHANGED <<events, loopH, tableLock, pc, stack, arg>>
  /\ UNCHANGED <<handlers, handlerCount, interest, ready, eventFdCount, functions, done,
                 queueLock, stackFunctions, fnIdx, hcfg, hstate, crashed, fns,
                 nextFn, budget>>

\* A dispatch that goes on to the invocation without lock.unlock().
LoopUnlockTableKeeps ==
  /\ ~crashed
  /\ pc[LoopThread] = "unlock_table"
  /\ Goto(LoopThread, "handle")
  /\ UNCHANGED <<handlers, handlerCount, interest, ready, eventFdCount, functions, done,
                 tableLock, queueLock, loopVars, hcfg, hstate, crashed, fns, nextFn,
                 budget, obs>>

\* Line 168: lock.unlock() before the handler is invoked.
LoopUnlockTable ==
  /\ ~crashed
  /\ pc[LoopThread] = "unlock_table"
  /\ tableLock' = NoThread
  /\ Goto(LoopThread, "handle")
  /\ UNCHANGED <<handlers, handlerCount, interest, ready, eventFdCount, functions, done,
                 queueLock, loopVars, hcfg, hstate, crashed, fns, nextFn, budget, obs>>

\* Lines 186 and 201: std::unique_lock lock(m_) on entry to the block,
\* lock.lock() after the swapped functions have run.
LoopLockQueue ==
  /\ ~crashed
  /\ pc[LoopThread] = "drain"
  /\ queueLock = NoThread
  /\ queueLock' = LoopThread
  /\ Goto(LoopThread, "swap")
  /\ UNCHANGED <<handlers, handlerCount, interest, ready, eventFdCount, functions, done,
                 tableLock, loopVars, hcfg, hstate, crashed, fns, nextFn, budget, obs>>

\* Lines 187-189 and 203, with m_ held: while (!functions_.empty()) and the
\* swap into stackFunctions; an empty queue ends the block and with it the
\* unique_lock.
LoopSwap ==
  /\ ~crashed
  /\ pc[LoopThread] = "swap"
  /\ IF functions = <<>>
     THEN /\ queueLock' = NoThread
          /\ Goto(LoopThread, "check")
          /\ UNCHANGED <<functions, stackFunctions, fnIdx>>
     ELSE /\ stackFunctions' = Swapped
          /\ functions' = <<>>
          /\ fnIdx' = 1
          /\ Goto(LoopThread, "unlock_queue")
          /\ UNCHANGED queueLock
  /\ UNCHANGED <<handlers, handlerCount, interest, ready, eventFdCount, done, tableLock,
                 events, evIdx, loopH, hcfg, hstate, crashed, fns, nextFn, budget, obs>>

\* Line 190: lock.unlock() before the swapped functions run.
LoopUnlockQueue ==
  /\ ~crashed
  /\ pc[LoopThread] = "unlock_queue"
  /\ queueLock' = NoThread
  /\ Goto(LoopThread, "run_fn")
  /\ UNCHANGED <<handlers, handlerCount, interest, ready, eventFdCount, functions, done,
                 tableLock, loopVars, hcfg, hstate, crashed, fns, nextFn, budget, obs>>

\* Deferred functions that submit further functions, unregister and cancel
\* run between the dispatches of a handler.
Reentrant ==
  [NoBudget EXCEPT !.start = 1, !.fns = MaxFnsDeferred, !.ready = MaxReady,
                   !.bodies = {"ok", "nested", "unreg", "cancel"}]

InitLocks ==
  /\ InitCommon
  /\ hcfg \in HandlerConfigs
  /\ budget \in {Lifecycle, Reentrant}

NextLocks ==
  \/ \E t \in Threads : RegTable(t)
  \/ \E t \in Threads : RegEpoll(t)
  \/ \E t \in Threads : RegMod(t)
  \/ \E t \in Threads : UnregEpoll(t)
  \/ \E t \in Threads : UnregTable(t)
  \/ \E t \in Threads : CancelLock(t)
  \/ \E t \in Threads : CancelDone(t)
  \/ \E t \in Threads : DtorEnd(t)
  \/ \E t \in Threads : Unwind(t)
  \/ \E t \in ExtThreads, b \in FnBodies : ExtRun(t, b)
  \/ \E t \in ExtThreads, h \in Handlers : ExtStart(t, h)
  \/ \E t \in ExtThreads, h \in Handlers : ExtCancel(t, h)
  \/ \E t \in ExtThreads, h \in Handlers : ExtDrop(t, h)
  \/ \E fd \in UserFds, bit \in Bits : EnvReady(fd, bit)
  \/ LoopWait
  \/ LoopLockTable
  \/ LoopResolve
  \/ LoopUnlockTable
  \/ LoopHandle
  \/ LoopResetH
  \/ LoopLockQueue
  \/ LoopSwap
  \/ LoopUnlockQueue
  \/ LoopRunFn
  \/ LoopRun
  \/ LoopFnRet
  \/ LoopCheck

SpecLocks == InitLocks /\ [][NextLocks]_vars

\* =================================================================== claims
Exits == pc[LoopThread] # "exited" /\ pc'[LoopThread] = "exited"

LiveEntries == {fd \in DOMAIN handlers : WeakLock(handlers[fd]) # NoHandler}
HeldEntries == {fd \in DOMAIN handlers : ~is_uninitialized(handlers[fd])}

\* No thread is inside a call into the loop or a handler.
Quiescent ==
  /\ \A t \in ExtThreads : pc[t] = "idle"
  /\ pc[LoopThread] \in {"wait", "dispatch", "drain", "run_fn", "check", "exited"}

\* C1 as stated: whenever no call is in progress, handlerCount equals the
\* number of descriptors registered with a live (lockable) handler reference.
C1_CountsLiveReferences == Quiescent => handlerCount = Cardinality(LiveEntries)

\* C1 (amended): in every reachable state, for every interleaving of
\* registerDescriptor and unregisterDescriptor calls from external threads,
\* handler callbacks and deferred functions, handlerCount equals the number
\* of table entries that are not uninitialized, whether the handler they
\* refer to is alive or has expired.
C1_CountsHeldEntries == handlerCount = Cardinality(HeldEntries)

\* A re-registration of a descriptor has updated the table while an
\* unregistration of the same descriptor is between its epoll_ctl and its
\* table update.
C1_Witness ==
  \E t, u \in Threads :
    /\ t # u
    /\ pc[t] = "unreg_table"
    /\ pc[u] = "reg_epoll"
    /\ arg[t].fd = arg[u].fd
    /\ handlerCount = 1

\* C2: the dispatch routine returns only from a state where done_ is set,
\* handlerCount is zero and no table entry holds a handler reference, and
\* join() returns only after the dispatch routine has returned.
C2_ExitsOnlyStoppedAndEmpty ==
  /\ [][Exits => (done /\ handlerCount = 0 /\ HeldEntries = {})]_vars
  /\ [](obs.joinReturned => pc[LoopThread] = "exited")

\* join() has returned in a behaviour where a handler had been registered.
C2_Witness ==
  /\ obs.joinReturned
  /\ \E h \in Handlers : hstate[h].started

\* C3: a promise holds a value only once its fn has fully executed, every
\* fn that has started ran on the dispatch thread, and a function still in
\* the queue (run has returned) has neither run nor been settled.
C3_SuccessOnlyAfterFnOnLoop ==
  \A f \in Fns :
    /\ fns[f].promise = "value" => (fns[f].bodyDone /\ fns[f].ranOn = LoopThread)
    /\ fns[f].runs > 0 => fns[f].ranOn = LoopThread
    /\ (\E i \in DOMAIN functions : functions[i] = f) =>
         (fns[f].runs = 0 /\ fns[f].promise = "pending")

\* A function submitted by an external thread whose body called into the
\* loop over several steps has resolved to success.
C3_Witness ==
  \E f \in Fns :
    /\ fns[f].promise = "value"
    /\ fns[f].by \in ExtThreads
    /\ fns[f].body \in {"unreg", "cancel"}

\* C4: a function that raises resolves its own promise to the failure and
\* never to a value, only a raising function's promise holds a failure, and
\* every submitted function, whatever the others did, is eventually settled
\* with its own outcome.
C4_FailureCapturedOthersSettled ==
  /\ [](\A f \in Fns : fns[f].body = "throw" => fns[f].promise # "value")
  /\ [](\A f \in Fns : fns[f].promise = "exception" => fns[f].body = "throw")
  /\ \A f \in Fns :
       (fns[f].promise = "pending") ~>
         (fns[f].promise = IF fns[f].body = "throw" THEN "exception" ELSE "value")

\* A function failed and a function submitted after it resolved to success.
C4_Witness ==
  \E f, g \in Fns :
    /\ f < g
    /\ fns[f].promise = "exception"
    /\ fns[g].promise = "value"
    /\ fns[f].by \in ExtThreads

\* C5 as stated: over all cancel() calls on a handler, at most one calls
\* unregisterDescriptor and none raises an error.
C5_OneUnregistrationNoError ==
  \A h \in Handlers : obs.unregCalls[h] <= 1 /\ obs.cancelErrs[h] = 0

\* C6 as stated: a handler that was registered and whose owner released it
\* with no cancel() before is not being invoked, and once it is destroyed no
\* table entry refers to it (so it cannot keep handlerCount above zero).
C6_DroppedHandlerInert ==
  \A h \in Handlers :
    (hstate[h].started /\ ~hstate[h].ownerRef /\ obs.unregCalls[h] = 0) =>
      /\ pc[LoopThread] = "handle" => loopH # h
      /\ hstate[h].destroyed => \A fd \in DOMAIN handlers : handlers[fd] # h

\* C6 (amended): the dispatch thread takes a strong reference only to a
\* handler that still has an owner at that moment, and never holds a
\* destroyed handler, so a released handler is skipped by every later
\* resolution; but its expired table entry still counts, and the dispatch
\* routine does not return while an expired entry is in the table.
C6_ExpiredSkippedButCounted ==
  /\ [][\A h \in Handlers : (loopH # h /\ loopH' = h) => StrongCount(h) > 0]_vars
  /\ [](\A h \in Handlers : loopH = h => ~hstate[h].destroyed)
  /\ [][Exits => \A fd \in DOMAIN handlers :
                   ~(handlers[fd] # NoHandler /\ StrongCount(handlers[fd]) = 0)]_vars

\* join() waits, the dispatch thread has just skipped a ready event of a
\* destroyed handler whose entry is still in the table, and handlerCount is
\* still positive.
C6_Witness ==
  \E h \in Handlers, t \in ExtThreads :
    /\ hstate[h].destroyed
    /\ \E fd \in DOMAIN handlers : handlers[fd] = h
    /\ pc[t] = "join_wait"
    /\ pc[LoopThread] = "check"
    /\ obs.skipped
    /\ handlerCount > 0

Increasing(seq) == \A i, j \in DOMAIN seq : i < j => seq[i] < seq[j]

\* C10: in a cycle, once a deferred function has run the batch of events is
\* finished; in the drain phase every event that resolved to a live handler
\* had that handler invoked exactly once, in the batch's order; and deferred
\* functions execute in submission order.
C10_EventsThenFunctionsInOrder ==
  /\ obs.cycleFns > 0 => events = <<>>
  /\ (pc[LoopThread] \in {"drain", "run_fn", "fn_ret", "check"} \/ obs.cycleFns > 0)
       => obs.invoked = obs.resolved
  /\ Increasing(obs.invoked)
  /\ Increasing(obs.execLog)

\* A cycle in which a handler was invoked and then two deferred functions ran.
C10_Witness ==
  /\ obs.cycleFns >= 2
  /\ Len(obs.invoked) >= 1

\* C7: outside the drain phase no function submitted from the dispatch
\* thread (from within a deferred function) is still pending: the drain
\* phase ended only after it had run.
C7_NestedWorkDrainedInCycle ==
  pc[LoopThread] \in {"check", "wait", "dispatch", "exited"} =>
    \A f \in Fns : fns[f].by = LoopThread => fns[f].promise \in {"value", "exception"}

\* The drain phase is over and a function submitted from within a deferred
\* function has been executed.
C7_Witness ==
  /\ pc[LoopThread] = "check"
  /\ \E f \in Fns : fns[f].by = LoopThread /\ fns[f].runs = 1

\* C8: with no shutdown requested, no submitted function runs twice or is
\* settled twice, and each one is eventually executed once and settled once.
C8_EachUnitOnceEventually ==
  /\ [](\A f \in Fns : fns[f].runs <= 1 /\ fns[f].sets <= 1)
  /\ [](\A f \in Fns : fns[f].sets = 1 => fns[f].runs = 1)
  /\ \A f \in Fns : (fns[f].by # NoThread) ~> (fns[f].runs = 1 /\ fns[f].sets = 1)

\* Functions submitted by two different threads were taken by one swap and
\* all submitted functions have been executed and settled once.
C8_Witness ==
  /\ nextFn > MaxFns
  /\ \A f \in 1..MaxFns : fns[f].runs = 1 /\ fns[f].sets = 1
  /\ \E f, g \in 1..MaxFns : {fns[f].by, fns[g].by} = ExtThreads
  /\ obs.cycleFns >= 2

\* C9 as stated: when the dispatch routine returns, the pending queue is
\* empty (every function submitted before the return has been executed).
C9_QueueEmptyAtExit == [][Exits => functions = <<>>]_vars

\* The dispatch thread is in handleEvents (line 172), in a call the callback
\* makes, in h.reset() (line 175) or in the destructor the reset runs.
InInvocation ==
  \/ pc[LoopThread] \in {"handle", "reset_h"}
  \/ \E i \in DOMAIN stack[LoopThread] :
       stack[LoopThread][i].k \in {"reset_h", "dispatch", "dtor_end"}

\* The dispatch thread is in the for loop of lines 193-199: calling a
\* swapped function, in a call the function makes, or resetting it.
InFunctions ==
  \/ pc[LoopThread] \in {"run_fn", "fn_ret", "run_enqueue"}
  \/ \E i \in DOMAIN stack[LoopThread] : stack[LoopThread][i].k = "fn_ret"

\* C11: the dispatch thread does not hold handlersMutex_ while a handler is
\* invoked or its strong reference is dropped, does not hold m_ while a
\* deferred function runs or is reset, and never holds both mutexes.
C11_NoLockAcrossCallbacks ==
  /\ InInvocation => tableLock # LoopThread
  /\ InFunctions => queueLock # LoopThread
  /\ ~(tableLock = LoopThread /\ queueLock = LoopThread)

\* The dispatch thread dropped the last reference to a function handler and
\* is inside the destructor's unregisterDescriptor, where it takes
\* handlersMutex_ itself, while another thread is in registerDescriptor's
\* critical section of the same mutex; the dispatch thread held the mutex
\* when it resolved the handler of this batch.
C11_Witness ==
  /\ pc[LoopThread] = "unreg_table"
  /\ \E i \in DOMAIN stack[LoopThread] : stack[LoopThread][i].k = "dtor_end"
  /\ obs.resolved # <<>>
  /\ \E t \in ExtThreads : pc[t] = "reg_table"

\* The thread that holds the mutex thread t needs for its next step
\* (handlersMutex_, m_ or a handler's mutex_), NoThread if t needs none or
\* the mutex is free.
WaitsFor(t) ==
  IF t = NoThread THEN NoThread
  ELSE IF pc[t] \in {"reg_table", "unreg_table", "dispatch"} THEN tableLock
  ELSE IF pc[t] \in {"drain", "run_enqueue"} THEN queueLock
  ELSE IF pc[t] = "cancel_lock" THEN hstate[arg[t].h].mutex
  ELSE NoThread

\* C12: the threads never wait for each other's mutexes in a cycle (of
\* length one, two or three), and every call of start, cancel, registerDescriptor or unregisterDescriptor, and every
\* destructor, made by an external thread or by the dispatch thread,
\* eventually leaves the call (or the process was terminated by
\* std::terminate, which is no deadlock).
C12_NoDeadlock ==
  /\ [](\A t \in Threads :
          /\ WaitsFor(t) # t
          /\ WaitsFor(WaitsFor(t)) # t
          /\ WaitsFor(WaitsFor(WaitsFor(t))) # t)
  /\ \A t \in Threads : (pc[t] \in CallPcs) ~> (pc[t] \notin CallPcs \/ crashed)

\* The dispatch thread, inside a handler's callback, waits for the mutex_ of
\* the handler while an external thread holds it inside cancel().
C12_Witness ==
  \E h \in Handlers, t \in ExtThreads :
    /\ pc[LoopThread] = "cancel_lock"
    /\ arg[LoopThread].h = h
    /\ loopH = h
    /\ hstate[h].mutex = t
    /\ pc[t] = "unreg_table"

\* C13 as stated: the destructor of a function handler never lets an
\* exception escape (it would end the process), and once a function handler
\* is destroyed no table entry refers to it and, unless another live handler
\* is registered on its descriptor, the descriptor is in neither the table
\* nor the epoll interest list.
C13_DestructionLeavesNoRegistration ==
  /\ \A t \in Threads :
       ~(pc[t] = "throwing" /\ stack[t] # <<>> /\ Head(stack[t]).k = "dtor_end")
  /\ \A h \in Handlers :
       (hcfg[h].kind = "function" /\ hstate[h].destroyed) =>
         /\ \A fd \in DOMAIN handlers : handlers[fd] # h
         /\ (hcfg[h].fd \in DOMAIN handlers /\ handlers[hcfg[h].fd] = NoHandler)
              => interest[hcfg[h].fd] = NotInEpoll

\* C14: in every fair behaviour in which, from some point on, join() has set
\* done_, no descriptor is registered any more (handlerCount stays zero) and
\* the process has not been terminated, the dispatch thread exits and join()
\* returns.
C14_ShutdownCompletes ==
  /\ (<>[](done /\ handlerCount = 0 /\ ~crashed)) => <>obs.joinReturned
  /\ (done /\ handlerCount = 0) ~> (pc[LoopThread] = "exited" \/ handlerCount > 0 \/ crashed)

\* join() is waiting, a handler that was registered has been cancelled, and
\* the dispatch thread is at its exit test with handlerCount zero.
C14_Witness ==
  \E t \in ExtThreads, h \in Handlers :
    /\ pc[t] = "join_wait"
    /\ pc[LoopThread] = "check"
    /\ done
    /\ handlerCount = 0
    /\ hstate[h].started
    /\ hstate[h].cancelled

\* C15: the table update of registerDescriptor stores the new handler in the
\* descriptor's entry and changes no other entry; it leaves handlerCount
\* unchanged when the entry was already held and adds exactly one when it
\* was uninitialized; and a registerDescriptor call that returns has set the
\* descriptor's epoll interest to the new mask (by EPOLL_CTL_ADD, or by
\* EPOLL_CTL_MOD when the descriptor was present) without touching
\* handlerCount or the table.
C15_ReRegistrationReplaces ==
  /\ [][\A t \in Threads :
          (pc[t] = "reg_table" /\ pc'[t] = "reg_epoll") =>
            LET fd == arg[t].fd
                held == fd \in DOMAIN handlers /\ ~is_uninitialized(handlers[fd])
            IN /\ handlers'[fd] = arg[t].h
               /\ \A d \in DOMAIN handlers : d # fd => handlers'[d] = handlers[d]
               /\ handlerCount' = IF held THEN handlerCount ELSE handlerCount + 1]_vars
  /\ [][\A t \in Threads :
          (pc[t] \in {"reg_epoll", "reg_mod"} /\ pc'[t] \notin RegPcs \cup {"throwing"}) =>
            /\ interest'[arg[t].fd] = arg[t].mask
            /\ handlerCount' = handlerCount
            /\ handlers' = handlers]_vars

\* With no unregistration made so far, a second handler was registered on a
\* descriptor that already had one: the entry and the mask are the second
\* handler's and handlerCount is still one.
C15_Witness ==
  /\ \A t \in Threads : pc[t] \notin CallPcs
  /\ \A h \in Handlers : hstate[h].started /\ obs.unregCalls[h] = 0
  /\ budget.unreg = 0 /\ budget.cancel = MaxCancels /\ budget.drop = MaxDrops
  /\ handlers[1] = "h2"
  /\ interest[1] = hcfg["h2"].event
  /\ handlerCount = 1

\* C16 as stated: the eventfd's readiness is consumed by the cycle a wakeup
\* triggers, so with no handler registered and finitely many wakeup() and
\* run calls the dispatch thread eventually blocks in epoll_wait for good.
C16_WaitBlocksAgain == <>[](pc[LoopThread] = "wait")

\* The step in which epoll_wait returns -1 with EINTR.
Interrupted == budget'.eintr < budget.eintr

\* C17: an interrupted wait leaves the dispatch thread waiting: that step
\* invokes no handler, runs and settles no deferred function, takes nothing
\* from the queue, does not exit even if done_ is set and handlerCount is
\* zero, and raises no error.
C17_InterruptedWaitRetries ==
  [][Interrupted =>
       /\ pc[LoopThread] = "wait" /\ pc'[LoopThread] = "wait"
       /\ UNCHANGED <<fns, functions, stackFunctions, events, loopH, crashed,
                      handlers, handlerCount, done>>
       /\ obs'.invoked = obs.invoked
       /\ obs'.execLog = obs.execLog
       /\ obs'.cycleFns = obs.cycleFns]_vars

\* The wait was interrupted while join() had set done_, handlerCount was
\* zero and a function was pending; the dispatch thread still waits.
C17_Witness ==
  /\ obs.eintrSeen
  /\ budget.eintr < MaxEintr
  /\ pc[LoopThread] = "wait"
  /\ done
  /\ handlerCount = 0
  /\ functions # <<>>
  /\ obs.execLog = <<>>

\* C18 as stated: a step of cancel() (or of the destructor's cancel) of a
\* handler h whose start() has returned that acts on a descriptor whose table entry holds
\* another handler leaves that entry, the descriptor's epoll interest and
\* handlerCount unchanged.
C18_CancelRemovesOnlyOwn ==
  [][\A t \in Threads :
       (/\ pc[t] \in UnregPcs
        /\ arg[t].h # NoHandler
        /\ hstate[arg[t].h].started
        /\ \A u \in Threads : ~(pc[u] \in RegPcs /\ arg[u].h = arg[t].h)
        /\ pc'[t] # pc[t]
        /\ arg[t].fd \in DOMAIN handlers
        /\ handlers[arg[t].fd] \notin {NoHandler, arg[t].h}) =>
         /\ handlers'[arg[t].fd] = handlers[arg[t].fd]
         /\ interest'[arg[t].fd] = interest[arg[t].fd]
         /\ handlerCount' = handlerCount]_vars

\* C19 as stated: in a behaviour where only external threads call cancel()
\* (callbacks and deferred functions do not), the dispatch thread is never
\* about to begin the callback of a handler whose cancel() has returned.
C19_NoInvocationAfterCancel ==
  \A h \in Handlers :
    (/\ pc[LoopThread] = "handle"
     /\ loopH = h
     /\ events[evIdx].ev \cap hcfg[h].event # {}
     /\ hcfg[h].cb = "noop"
     /\ "cancel" \notin budget.bodies) =>
      ~hstate[h].cancelled

\* C20 as stated: when registerDescriptor fails at epoll_ctl, the table
\* entry of the descriptor does not hold the handler the failed call was
\* given.
C20_FailedRegistrationLeavesNoEntry ==
  \A t \in Threads :
    (pc[t] = "throwing" /\ arg[t].mask # {}) =>
      ~(arg[t].fd \in DOMAIN handlers /\ handlers[arg[t].fd] = arg[t].h)

====
